---- MODULE Spec2Model ----
(***************************************************************************)
(* State-machine model of the RS41 radiosonde decoder block                *)
(* (src/src/decode/rs41/decoder.cpp): calibration assembly, the subframe   *)
(* loop of run(), the CRC check and the input-source change.               *)
(*                                                                         *)
(* The protocol sizes of rs41.h are scaled down (DataLen, XdataLen,        *)
(* FragCount, FragSize); every formula of the code that uses them is kept  *)
(* as written, with the scaled size in place of the macro.                 *)
(***************************************************************************)
EXTENDS Integers, Sequences, FiniteSets, TLC

(* ------------------------------------------------------------------ *)
(* Sizes.                                                              *)
(* ------------------------------------------------------------------ *)

\* RS41_CALIB_FRAGCOUNT, scaled: number of fragments of the calibration table.
FragCount == 3

\* RS41_DATA_LEN, scaled: length of the data region of a frame.
DataLen == 10

\* RS41_XDATA_LEN, scaled: length of the extension region of a frame.
XdataLen == 5

\* Largest number of whole frames one m_in->read() delivers.
MaxFrames == 2

\* Longest payload (subframe->len) the CRC specification draws.
MaxCrcLen == 2

\* RS41_CALIB_FRAGSIZE, scaled: bytes per calibration fragment.
FragSize == 2

\* sizeof(m_calibDataBitmap): one bit per fragment, rounded up to whole bytes.
BitmapSize == (FragCount + 7) \div 8

\* RS41_FLAG_EXTENDED: value of frame->extended_flag for an extended frame.
RS41_FLAG_EXTENDED == 240

\* Subframe type tags (RS41_SFTYPE_*).
RS41_SFTYPE_EMPTY == 118
RS41_SFTYPE_INFO == 121
RS41_SFTYPE_PTU == 122
RS41_SFTYPE_GPSPOS == 123
RS41_SFTYPE_GPSINFO == 124
RS41_SFTYPE_GPSRAW == 125
RS41_SFTYPE_XDATA == 126

\* CRC-16 parameters handed to crc16() by crcCheck.
CCITT_FALSE_POLY == 4129
CCITT_FALSE_INIT == 65535

(* ------------------------------------------------------------------ *)
(* Bit arithmetic on machine words.                                    *)
(* ------------------------------------------------------------------ *)

RECURSIVE Pow2(_)
Pow2(n) == IF n = 0 THEN 1 ELSE 2 * Pow2(n - 1)

RECURSIVE BitXor(_, _, _)
\* a ^ b on w-bit words.
BitXor(a, b, w) ==
    IF w = 0 THEN 0
    ELSE (((a % 2) + (b % 2)) % 2) + 2 * BitXor(a \div 2, b \div 2, w - 1)

RECURSIVE BitAnd(_, _, _)
\* a & b on w-bit words.
BitAnd(a, b, w) ==
    IF w = 0 THEN 0
    ELSE ((a % 2) * (b % 2)) + 2 * BitAnd(a \div 2, b \div 2, w - 1)

\* ~a on a uint8_t.
BitNot8(a) == 255 - a

\* Bit k (0 = least significant) of a.
BitAt(a, k) == (a \div Pow2(k)) % 2

(* ------------------------------------------------------------------ *)
(* crc16() and crcCheck.                                               *)
(* ------------------------------------------------------------------ *)

\* a ^ b on bytes, tabulated once.
Xor8Table == [a \in 0..255 |-> [b \in 0..255 |-> BitXor(a, b, 8)]]
Xor8(a, b) == Xor8Table[a][b]

\* a ^ b on uint16_t.
Xor16(a, b) ==
    Xor8(a % 256, b % 256) + 256 * Xor8(a \div 256, b \div 256)

\* One step of the MSB-first CRC register: shift left, and XOR the polynomial
\* in when the bit shifted out was set.
CrcShift(poly, crc) ==
    IF crc >= 32768 THEN Xor16((crc * 2) % 65536, poly)
    ELSE (crc * 2) % 65536

\* The register after one more data byte: XOR the byte into the high half,
\* then eight steps.
CrcByte(poly, crc, byte) ==
    LET c0 == Xor16(crc, byte * 256)
        c1 == CrcShift(poly, c0)
        c2 == CrcShift(poly, c1)
        c3 == CrcShift(poly, c2)
        c4 == CrcShift(poly, c3)
        c5 == CrcShift(poly, c4)
        c6 == CrcShift(poly, c5)
        c7 == CrcShift(poly, c6)
    IN  CrcShift(poly, c7)

RECURSIVE crc16(_, _, _, _)
\* crc16(poly, init, data, len): CRC of the first len bytes of data.
crc16(poly, init, data, len) ==
    IF len = 0 THEN init
    ELSE CrcByte(poly, crc16(poly, init, data, len - 1), data[len])

\* Faulty variant of crcCheck: every subframe is accepted.
crcCheck_Always(sub) == TRUE

\* Faulty variant of crcCheck: the trailer is read high byte first.
crcCheck_BigEndian(sub) ==
    LET checksum == crc16(CCITT_FALSE_POLY, CCITT_FALSE_INIT, sub.data, sub.len)
        expected == sub.data[sub.len + 1] * 256 + sub.data[sub.len + 2]
    IN  checksum = expected

\* A subframe seen through RS41Subframe: sub.type, sub.len and sub.data, where
\* sub.data holds the len payload bytes followed by the two trailer bytes.
crcCheck(sub) ==
    LET checksum == crc16(CCITT_FALSE_POLY, CCITT_FALSE_INIT, sub.data, sub.len)
        expected == sub.data[sub.len + 1] + sub.data[sub.len + 2] * 256
    IN  checksum = expected

(* ------------------------------------------------------------------ *)
(* Frames and subframes (RS41Frame, RS41Subframe, rs41.h).             *)
(* ------------------------------------------------------------------ *)

Byte == 0..255

\* sizeof(frame->data): data region followed by the extension region.
FrameDataLen == DataLen + XdataLen

\* Bytes an out-of-array read can return (the memory after frame->data is not
\* part of the frame: any value).
OobBytes == {0, 255}

\* frame->data[idx] for a 0-based idx; oob is what the memory past the array holds.
FrameByte(f, idx, oob) ==
    IF idx < FrameDataLen THEN f.data[idx + 1] ELSE oob

\* (RS41Subframe*)&frame->data[off]: type, len, and data[] up to the CRC trailer.
SubframeAt(f, off, oob) ==
    LET len == FrameByte(f, off + 1, oob)
    IN  [type |-> FrameByte(f, off, oob),
         len  |-> len,
         data |-> [k \in 1..(len + 2) |-> FrameByte(f, off + 1 + k, oob)]]

\* Payload offsets of RS41Subframe_Status (scaled: one byte per field).
StatusFrameSeqOff == 0
StatusSerialOff == 1
StatusFragSeqOff == 2
StatusFragDataOff == 3

\* (RS41Subframe_Status*)subframe: the fields are read at their fixed offsets,
\* whatever subframe->len says.
StatusAt(f, off, oob) ==
    [frame_seq |-> FrameByte(f, off + 2 + StatusFrameSeqOff, oob),
     serial    |-> FrameByte(f, off + 2 + StatusSerialOff, oob),
     frag_seq  |-> FrameByte(f, off + 2 + StatusFragSeqOff, oob),
     frag_data |-> [j \in 1..FragSize |->
                      FrameByte(f, off + 2 + StatusFragDataOff + j - 1, oob)]]

\* First payload byte of a PTU / GPS-position / GPS-info / XDATA subframe: the
\* raw measurement the handler converts.
PayloadAt(f, off, oob) == FrameByte(f, off + 2, oob)

(* ------------------------------------------------------------------ *)
(* Calibration table, completion bitmap (decoder.hpp, decoder.cpp).    *)
(* ------------------------------------------------------------------ *)

\* sizeof(RS41Calibration)
CalibSize == FragCount * FragSize

\* _defaultCalibData, scaled: every byte differs from the fragment bytes the
\* sonde sends in this model; the first two bytes are the burst-kill timer,
\* 0xFFFF in the default table.
DefaultCalibData == [k \in 1..CalibSize |-> IF k <= 2 THEN 255 ELSE 170]

\* m_calibData.burstkill_timer: a little-endian uint16_t of the table.
BurstkillTimer(calib) == calib[1] + calib[2] * 256

\* memset(m_calibDataBitmap, 0xFF, sizeof(m_calibDataBitmap))
MemsetBitmap == [k \in 1..BitmapSize |-> 255]

\* Faulty variant of MaskLastByte: the trailing bits of the last byte stay set.
MaskLastByte_NoMask(bitmap) == bitmap

\* m_calibDataBitmap[sizeof-1] &= ~((1 << (7 - (RS41_CALIB_FRAGCOUNT-1)%8)) - 1)
MaskLastByte(bitmap) ==
    [bitmap EXCEPT ![BitmapSize] =
        BitAnd(@, BitNot8(Pow2(7 - ((FragCount - 1) % 8)) - 1), 8)]

\* The loop of updateCalibData: no byte of the bitmap is non-zero.
BitmapAllZero(bitmap) == \A k \in 1..BitmapSize : bitmap[k] = 0

\* What the bytes after m_calibData hold once a fragment was copied past the
\* end of the table (frag_seq >= RS41_CALIB_FRAGCOUNT): the members that follow
\* the table keep their value or take the copied bytes.
ClobberBytes == {0, 255}
Clobbers(bitmap, calibrated) ==
    [bitmap : {bitmap} \cup [1..BitmapSize -> ClobberBytes],
     calibrated : BOOLEAN]

\* updateCalibData(status): the new table, bitmap and flag.  clob is the
\* outcome of the out-of-bounds copy, used only when frag_seq is out of range.
updateCalibData(calib, bitmap, calibrated, status, clob) ==
    LET seq      == status.frag_seq
        inTable  == seq * FragSize + FragSize <= CalibSize
        inBitmap == seq \div 8 < BitmapSize
        \* memcpy((uint8_t*)&m_calibData + frag_offset, frag_data, FRAGSIZE)
        calib1   == IF inTable
                    THEN [k \in 1..CalibSize |->
                            IF k > seq * FragSize /\ k <= seq * FragSize + FragSize
                            THEN status.frag_data[k - seq * FragSize]
                            ELSE calib[k]]
                    ELSE calib
        bitmap0  == IF inTable THEN bitmap ELSE clob.bitmap
        flag0    == IF inTable THEN calibrated ELSE clob.calibrated
        \* m_calibDataBitmap[frag_seq/8] &= ~(1 << (7-frag_seq%8))
        bitmap1  == IF inBitmap
                    THEN [bitmap0 EXCEPT ![seq \div 8 + 1] =
                            BitAnd(@, BitNot8(Pow2(7 - (seq % 8))), 8)]
                    ELSE bitmap0
    IN  [calibData  |-> calib1,
         bitmap     |-> bitmap1,
         calibrated |-> IF BitmapAllZero(bitmap1) THEN TRUE ELSE flag0]

(* ------------------------------------------------------------------ *)
(* SondeData and the subframe handlers of updateSondeData.             *)
(* ------------------------------------------------------------------ *)

SondeFields ==
    {"calibrated", "serial", "burstkill", "seq", "temp", "rh", "pressure",
     "dewpt", "lat", "lon", "alt", "spd", "hdg", "climb", "time", "auxData"}

\* Value of a field no subframe has set, and of a field set to x.
Unset == <<"unset">>
Val(x) == <<"val", x>>

\* SondeData::init(): every field unset, calibrated false.
SondeDataInit ==
    [fld \in SondeFields |-> IF fld = "calibrated" THEN FALSE ELSE Unset]

\* The conversions of the telemetry computer and of its collaborators, as
\* functions of the raw value they convert.
pressure(ptu) == 0
dewpt(t, h) == <<"dewpt", t, h>>
ecef_to_lla(pos) == <<"lla", pos>>
ecef_to_spd_hdg(lla, pos) == <<"spd_hdg", lla, pos>>
altitude_to_pressure(alt) == <<"p_alt", alt>>
gps_time_to_utc(t) == <<"utc", t>>
decodeXDATA(ascii, len) == <<"xdata", ascii, len>>

(* Floats.  A float is not-a-number or a number; numbers are kept on the
   integer grid (a quotient is rounded down), which keeps which results are
   not-a-number and how numbers compare.  No operation of the model overflows
   or divides by zero, so no infinity arises. *)
NaN == <<"nan">>
Num(n) == <<"num", n>>
IsNaN(x) == x = NaN
FAdd(x, y) == IF IsNaN(x) \/ IsNaN(y) THEN NaN ELSE Num(x[2] + y[2])
FSub(x, y) == IF IsNaN(x) \/ IsNaN(y) THEN NaN ELSE Num(x[2] - y[2])
FMul(x, y) == IF IsNaN(x) \/ IsNaN(y) THEN NaN ELSE Num(x[2] * y[2])
FDiv(x, y) == IF IsNaN(x) \/ IsNaN(y) THEN NaN ELSE Num(x[2] \div y[2])

\* fmin and fmax of <cmath>: if one argument is not-a-number, the other one is
\* returned.
fmin(x, y) ==
    IF IsNaN(x) THEN y ELSE IF IsNaN(y) THEN x ELSE IF x[2] <= y[2] THEN x ELSE y
fmax(x, y) ==
    IF IsNaN(x) THEN y ELSE IF IsNaN(y) THEN x ELSE IF x[2] >= y[2] THEN x ELSE y

\* wv_sat_pressure of the utilities: the saturation vapour pressure at a
\* temperature, a positive number; not-a-number for not-a-number.
wv_sat_pressure(t) ==
    IF IsNaN(t) THEN NaN ELSE Num(1 + (IF t[2] < 0 THEN 0 - t[2] ELSE t[2]))

\* A float of the calibration table, scaled to one byte: all bits set is
\* not-a-number (as 0xFFFFFFFF is), any other byte is its value.
CalibFloat(b) == IF b = 255 THEN NaN ELSE Num(b)

\* The coefficients of the table the conversions read, apart from t_ref:
\* fixed numbers here.
\* Sizes of the calibration polynomials, scaled: the degree of the calibration
\* polynomials of temp and rh (6 in the code) and the rows and columns of the
\* humidity surface rh_calib_coeff (7 and 6 in the code).
CalibDegree == 2
RhRows == 2
RhCols == 2

PolyIdentity == <<Num(0), Num(1), Num(0)>>
CoeffUnit == [k \in 1..(CalibDegree + 1) |-> IF k = 1 THEN Num(1) ELSE Num(0)]
RhCalibCoeff ==
    [ii \in 0..(RhRows - 1) |-> [jj \in 0..(RhCols - 1) |->
        IF jj = 0 /\ ii = 0 THEN Num(50)
        ELSE IF jj = 0 /\ ii = 1 THEN Num(40)
        ELSE Num(0)]]

\* m_calibData seen through RS41Calibration: t_ref[0] and t_ref[1] are bytes 3
\* and 4 of the scaled table.
CalibFields(t_ref0, t_ref1) ==
    [t_ref           |-> <<t_ref0, t_ref1>>,
     t_calib_coeff   |-> CoeffUnit,
     t_temp_poly     |-> PolyIdentity,
     th_calib_coeff  |-> CoeffUnit,
     th_temp_poly    |-> PolyIdentity,
     rh_ref          |-> <<Num(1), Num(3)>>,
     rh_cap_calib    |-> <<Num(1), Num(1)>>,
     rh_calib_coeff  |-> RhCalibCoeff]
CalibView(calib) == CalibFields(CalibFloat(calib[3]), CalibFloat(calib[4]))

\* (RS41Subframe_PTU*)subframe, scaled to one payload byte: the reference
\* channels of the three sensors and the main channels of the temperature and
\* humidity sensors are one bit each; the main channel of the RH-sensor
\* temperature is 1.
PtuOfByte(b) ==
    [temp_main          |-> BitAt(b, 6),
     temp_ref1          |-> BitAt(b, 0),
     temp_ref2          |-> BitAt(b, 1),
     humidity_main      |-> BitAt(b, 7),
     humidity_ref1      |-> BitAt(b, 2),
     humidity_ref2      |-> BitAt(b, 3),
     temp_humidity_main |-> 1,
     temp_humidity_ref1 |-> BitAt(b, 4),
     temp_humidity_ref2 |-> BitAt(b, 5)]
PtuAt(f, off, oob) == PtuOfByte(PayloadAt(f, off, oob))

\* for (i=CalibDegree; i>0; i--) { acc *= x; acc += coeff[i]; } from i = k
\* downwards.
\* (The comparison of acc with the empty tuple is never true: it has TLC
\* evaluate the accumulator at every step.)
RECURSIVE Horner(_, _, _, _)
Horner(coeff, x, k, acc) ==
    IF k = 0 \/ acc = <<>> THEN acc
    ELSE Horner(coeff, x, k - 1, FAdd(FMul(acc, x), coeff[k + 1]))

\* RS41Decoder::temp
temp(ptu, cal) ==
    LET adc_main == Num(ptu.temp_main)
        adc_ref1 == Num(ptu.temp_ref1)
        adc_ref2 == Num(ptu.temp_ref2)
    IN  IF FSub(adc_ref2, adc_ref1) = Num(0) THEN NaN
        ELSE
        LET adc_raw == FDiv(FSub(adc_main, adc_ref1), FSub(adc_ref2, adc_ref1))
            r_raw   == FAdd(cal.t_ref[1],
                            FMul(FSub(cal.t_ref[2], cal.t_ref[1]), adc_raw))
            r_t     == FMul(r_raw, cal.t_calib_coeff[1])
            t_uncal == FAdd(FAdd(cal.t_temp_poly[1], FMul(cal.t_temp_poly[2], r_t)),
                            FMul(FMul(cal.t_temp_poly[3], r_t), r_t))
        IN  FAdd(Horner(cal.t_calib_coeff, t_uncal, CalibDegree, Num(0)), t_uncal)

\* Faulty variant of rh_temp: the calibration references are not tested.
rh_temp_NoZeroTest(ptu, cal) ==
    LET adc_main == Num(ptu.temp_humidity_main)
        adc_ref1 == Num(ptu.temp_humidity_ref1)
        adc_ref2 == Num(ptu.temp_humidity_ref2)
    IN  IF FSub(adc_ref2, adc_ref1) = Num(0) THEN NaN
        ELSE
        LET adc_raw == FDiv(FSub(adc_main, adc_ref1), FSub(adc_ref2, adc_ref1))
            r_raw   == FAdd(cal.t_ref[1],
                            FMul(adc_raw, FSub(cal.t_ref[2], cal.t_ref[1])))
            r_t     == FMul(r_raw, cal.th_calib_coeff[1])
        IN  FAdd(FAdd(cal.th_temp_poly[1], FMul(cal.th_temp_poly[2], r_t)),
                 FMul(FMul(cal.th_temp_poly[3], r_t), r_t))

\* RS41Decoder::rh_temp
rh_temp(ptu, cal) ==
    LET adc_main == Num(ptu.temp_humidity_main)
        adc_ref1 == Num(ptu.temp_humidity_ref1)
        adc_ref2 == Num(ptu.temp_humidity_ref2)
    IN  IF FSub(adc_ref2, adc_ref1) = Num(0) THEN NaN
        ELSE IF cal.t_ref[1] = Num(0) \/ cal.t_ref[2] = Num(0) THEN NaN
        ELSE
        LET adc_raw == FDiv(FSub(adc_main, adc_ref1), FSub(adc_ref2, adc_ref1))
            r_raw   == FAdd(cal.t_ref[1],
                            FMul(adc_raw, FSub(cal.t_ref[2], cal.t_ref[1])))
            r_t     == FMul(r_raw, cal.th_calib_coeff[1])
        IN  FAdd(FAdd(cal.th_temp_poly[1], FMul(cal.th_temp_poly[2], r_t)),
                 FMul(FMul(cal.th_temp_poly[3], r_t), r_t))

\* The double loop of rh: rh_uncal from row ii, column jj onwards, with
\* f1 = c_cal^ii and f2 = rh_temp_cal^jj.  (The comparison with the empty tuple
\* is never true: it has TLC evaluate f1, f2 and the sum at every step.)
RECURSIVE RhSurface(_, _, _, _, _, _, _, _)
RhSurface(coeff, c_cal, rh_temp_cal, ii, jj, f1, f2, acc) ==
    IF ii = RhRows \/ <<f1, f2, acc>> = <<>> THEN acc
    ELSE IF jj = RhCols
         THEN RhSurface(coeff, c_cal, rh_temp_cal, ii + 1, 0,
                        FMul(f1, c_cal), Num(1), acc)
         ELSE RhSurface(coeff, c_cal, rh_temp_cal, ii, jj + 1, f1,
                        FMul(f2, rh_temp_cal),
                        FAdd(acc, FMul(FMul(f1, f2), coeff[ii][jj])))

\* RS41Decoder::rh
rh(ptu, cal) ==
    LET adc_main == Num(ptu.humidity_main)
        adc_ref1 == Num(ptu.humidity_ref1)
        adc_ref2 == Num(ptu.humidity_ref2)
    IN  IF FSub(adc_ref2, adc_ref1) = Num(0) THEN NaN
        ELSE
        LET rh_temp_uncal == rh_temp(ptu, cal)
            t_temp        == temp(ptu, cal)
            rh_temp_cal0  == FAdd(Horner(cal.th_calib_coeff, rh_temp_uncal, CalibDegree, Num(0)),
                                  rh_temp_uncal)
            adc_raw == FDiv(FSub(adc_main, adc_ref1), FSub(adc_ref2, adc_ref1))
            c_raw   == FAdd(cal.rh_ref[1],
                            FMul(adc_raw, FSub(cal.rh_ref[2], cal.rh_ref[1])))
            c_cal   == FMul(FSub(FDiv(c_raw, cal.rh_cap_calib[1]), Num(1)),
                            cal.rh_cap_calib[2])
            rh_temp_cal == FDiv(FSub(rh_temp_cal0, Num(20)), Num(180))
            rh_uncal == RhSurface(cal.rh_calib_coeff, c_cal, rh_temp_cal,
                                  0, 0, Num(1), Num(1), Num(0))
            rh_cal  == FDiv(FMul(rh_uncal, wv_sat_pressure(rh_temp_uncal)),
                            wv_sat_pressure(t_temp))
        IN  fmax(Num(0), fmin(Num(100), rh_cal))

\* case RS41_SFTYPE_INFO: the new SondeData, table, bitmap and flag.
HandleStatus(info, calib, bitmap, calibrated, status, clob) ==
    LET upd   == updateCalibData(calib, bitmap, calibrated, status, clob)
        timer == BurstkillTimer(upd.calibData)
    IN  [info |-> [info EXCEPT
                     !["calibrated"] = upd.calibrated,
                     !["serial"] = Val(status.serial),
                     !["burstkill"] = Val(IF timer = 65535 THEN -1 ELSE timer),
                     !["seq"] = Val(status.frame_seq)],
         calibData |-> upd.calibData,
         bitmap |-> upd.bitmap,
         calibrated |-> upd.calibrated]

\* case RS41_SFTYPE_PTU: the new SondeData.
HandlePTU(info, ptu, cal) ==
    LET t  == temp(ptu, cal)
        h  == rh(ptu, cal)
        i1 == [info EXCEPT !["temp"] = t, !["rh"] = h]
        i2 == IF pressure(ptu) > 0
              THEN [i1 EXCEPT !["pressure"] = pressure(ptu)]
              ELSE i1
    IN  [i2 EXCEPT !["dewpt"] = dewpt(t, h)]

\* case RS41_SFTYPE_GPSPOS: the new SondeData.  hasPressureSensor is a local
\* that is false here, so the pressure is always the altitude estimate.
HandleGPSPos(info, pos) ==
    LET lla == ecef_to_lla(pos)
        vel == ecef_to_spd_hdg(lla, pos)
    IN  [info EXCEPT
           !["lat"] = <<"lat", lla>>,
           !["lon"] = <<"lon", lla>>,
           !["alt"] = <<"alt", lla>>,
           !["spd"] = <<"spd", vel>>,
           !["hdg"] = <<"hdg", vel>>,
           !["climb"] = <<"climb", vel>>,
           !["pressure"] = altitude_to_pressure(<<"alt", lla>>)]

\* Faulty variant of HandleGPSInfo: the GPS-info case also stores the frame number.
HandleGPSInfo_AlsoSeq(info, t) ==
    [info EXCEPT !["time"] = gps_time_to_utc(t), !["seq"] = Val(t)]

\* case RS41_SFTYPE_GPSINFO: the new SondeData.
HandleGPSInfo(info, t) == [info EXCEPT !["time"] = gps_time_to_utc(t)]

\* case RS41_SFTYPE_XDATA: the new SondeData.
HandleXDATA(info, ascii, len) == [info EXCEPT !["auxData"] = decodeXDATA(ascii, len)]

\* updateSondeData(&m_sondeData, subframe) on the subframe at frame->data[off]:
\* the new SondeData, table, bitmap and flag.
updateSondeData(info, calib, bitmap, calibrated, f, off, oob, clob) ==
    LET type == FrameByte(f, off, oob)
        same == [info |-> info, calibData |-> calib, bitmap |-> bitmap,
                 calibrated |-> calibrated]
    IN  CASE type = RS41_SFTYPE_INFO ->
               HandleStatus(info, calib, bitmap, calibrated, StatusAt(f, off, oob), clob)
          [] type = RS41_SFTYPE_PTU ->
               [same EXCEPT !.info = HandlePTU(info, PtuAt(f, off, oob),
                                               CalibView(calib))]
          [] type = RS41_SFTYPE_GPSPOS ->
               [same EXCEPT !.info = HandleGPSPos(info, PayloadAt(f, off, oob))]
          [] type = RS41_SFTYPE_GPSINFO ->
               [same EXCEPT !.info = HandleGPSInfo(info, PayloadAt(f, off, oob))]
          [] type = RS41_SFTYPE_XDATA ->
               [same EXCEPT !.info = HandleXDATA(info, PayloadAt(f, off, oob),
                                                 FrameByte(f, off + 1, oob))]
          [] OTHER -> same

\* The payload offsets the case of updateSondeData for a subframe type reads:
\* the whole struct the subframe is cast to, whatever subframe->len says; the
\* XDATA case hands len to decodeXDATA, which reads no further.
StatusSize == StatusFragDataOff + FragSize
HandlerReads(type, len) ==
    CASE type = RS41_SFTYPE_INFO -> 0..(StatusSize - 1)
      [] type \in {RS41_SFTYPE_PTU, RS41_SFTYPE_GPSPOS, RS41_SFTYPE_GPSINFO} -> {0}
      [] type = RS41_SFTYPE_XDATA -> {k \in {0} : k < len}
      [] OTHER -> {}

(* ------------------------------------------------------------------ *)
(* Input: the frames the stream delivers, as descramble and rsCorrect  *)
(* leave them in the read buffer.                                      *)
(* ------------------------------------------------------------------ *)

Zeros(n) == [k \in 1..n |-> 0]

\* The two trailer bytes of a well-formed subframe: CRC of the payload, low
\* byte first.
CrcTrailer(payload) ==
    LET c == crc16(CCITT_FALSE_POLY, CCITT_FALSE_INIT, payload, Len(payload))
    IN  <<c % 256, c \div 256>>

\* A well-formed subframe, and one whose trailer has a flipped bit.
Sub(type, payload) == <<type, Len(payload)>> \o payload \o CrcTrailer(payload)
BadSub(type, payload) ==
    LET t == CrcTrailer(payload)
    IN  <<type, Len(payload)>> \o payload \o <<BitXor(t[1], 1, 8), t[2]>>

\* A status subframe carrying fragment q of the calibration table.
StatusPayload(q) == <<1, 83, q>> \o Zeros(FragSize)
StatusSub(q) == Sub(RS41_SFTYPE_INFO, StatusPayload(q))

PtuSub == Sub(RS41_SFTYPE_PTU, <<7>>)
GpsPosSub == Sub(RS41_SFTYPE_GPSPOS, <<7>>)
GpsInfoSub == Sub(RS41_SFTYPE_GPSINFO, <<7>>)
XdataSub == Sub(RS41_SFTYPE_XDATA, <<7>>)
GpsRawSub == Sub(RS41_SFTYPE_GPSRAW, <<7>>)
EmptySub == Sub(RS41_SFTYPE_EMPTY, <<>>)
UnknownSub == Sub(85, <<7>>)

\* frame->data filled with the given bytes, zero padded or cut to its size.
FrameData(bytes) ==
    [k \in 1..FrameDataLen |-> IF k <= Len(bytes) THEN bytes[k] ELSE 0]

\* Fragment numbers inside the table, and two past its end: the first one
\* past the table, and the first one past the bitmap.
InRangeFrags == 0..(FragCount - 1)
OobFrags == {FragCount, 8 * BitmapSize}

\* Contents of the data region of the input frames.
StatusContents(frags) == {StatusSub(q) : q \in frags}
SingleContents ==
    { PtuSub, GpsPosSub, GpsInfoSub, XdataSub, GpsRawSub, EmptySub, UnknownSub,
      \* a subframe with a wrong CRC followed by a good one
      BadSub(RS41_SFTYPE_PTU, <<9>>) \o GpsInfoSub,
      BadSub(RS41_SFTYPE_INFO, StatusPayload(0)) }
LongContents ==
    {
      \* a good subframe, a header whose len runs past the bound, then bytes
      \* that would parse as a good subframe
      PtuSub \o <<RS41_SFTYPE_GPSINFO, 200>> \o GpsInfoSub,
      \* three subframes: the third lies in the extension region
      PtuSub \o GpsPosSub \o XdataSub,
      \* a status subframe that straddles the end of the data region
      PtuSub \o StatusSub(0) }

FramesOf(flags, contents) ==
    [extended_flag : flags, data : {FrameData(c) : c \in contents}]

\* Frames that exercise the parser: every subframe type, one calibration
\* fragment.
ParseFrames ==
    FramesOf({0}, StatusContents({0}) \cup SingleContents)
        \cup FramesOf({0, RS41_FLAG_EXTENDED}, LongContents)

\* Frames of status subframes only: every fragment number inside the table,
\* and (StatusFrames) two past its end.
CalibFrames == FramesOf({0, RS41_FLAG_EXTENDED}, StatusContents(InRangeFrags))
StatusFrames == FramesOf({0}, StatusContents(InRangeFrags \cup OobFrags))

\* Frames with subframes shorter than the struct of their type, with a valid
\* CRC: a PTU subframe without payload; a status subframe of one payload byte
\* that ends the data region; one that ends the extension region.
ShortContents ==
    { Sub(RS41_SFTYPE_PTU, <<>>) \o GpsInfoSub,
      GpsInfoSub \o Sub(RS41_SFTYPE_INFO, <<1>>),
      PtuSub \o GpsPosSub \o Sub(RS41_SFTYPE_INFO, <<1>>) }
ShortFrames == FramesOf({0, RS41_FLAG_EXTENDED}, ShortContents)

\* No frame in the buffer.
NoFrame == [extended_flag |-> 0, data |-> <<>>]

(* ------------------------------------------------------------------ *)
(* State.                                                              *)
(* ------------------------------------------------------------------ *)

VARIABLES
    m_calibrated,       \* RS41Decoder::m_calibrated
    m_calibDataBitmap,  \* RS41Decoder::m_calibDataBitmap, bytes 1..BitmapSize
    m_calibData,        \* RS41Decoder::m_calibData, bytes 1..CalibSize
    m_sondeData,        \* RS41Decoder::m_sondeData
    delivered,          \* history: fragment numbers inside the table that
                        \* status subframes delivered since init or the
                        \* last setInput
    running,            \* generic_block::running
    tempStopped,        \* generic_block::tempStopped
    readerStop,         \* the input stream's reader-stop flag
    worker,             \* position of the worker thread (workerLoop / run)
    ctl,                \* position of the control thread inside setInput
    numFrames,          \* run(): numFrames
    i,                  \* run(): index of the frame being processed
    outCount,           \* run(): outCount
    frame,              \* run(): *frame, after descramble and rsCorrect
    bytesLeft,          \* run(): bytesLeft
    offset,             \* run(): offset
    visited,            \* history: iterations of the while body for this frame
    handlerCalls,       \* number of m_handler invocations of this run() call
    lastEmitted,        \* the SondeData m_handler saw at its last invocation
                        \* of this run() call (<<>>: none yet)
    retval,             \* value the last completed run() returned
    crcIn,              \* crcCheck exercised alone: the subframe
    crcOut,             \* crcCheck exercised alone: what was done and the result
    dscIn,              \* descramble exercised alone: the raw frame bytes
    dscOut,             \* descramble exercised alone: the bytes it leaves
    rsFrame,            \* rsCorrect(): *frame, with its parity region
    rsBlock,            \* rsCorrect(): rsBlock, bytes 1..RS41_REEDSOLOMON_N
    block,              \* rsCorrect(): block
    valid,              \* rsCorrect(): valid
    chunk_len,          \* rsCorrect(): chunk_len
    rsBefore,           \* history: *frame as rsCorrect() received it
    rsRets,             \* history: what correct_reed_solomon_decode returned
                        \* for each block handed to it, in order
    ptuIn,              \* PTU conversions exercised alone: the subframe's
                        \* channels and the calibration values
    ptuOut,             \* PTU conversions exercised alone: what they returned
                        \* and the SondeData the PTU case left
    count,              \* run(): what m_in->read() returned, in bytes
    streamPos,          \* history: bytes of the input stream that earlier
                        \* read()/flush() pairs took, i.e. the stream position
                        \* of readBuf[0]
    framesDone,         \* history: frames the for loop processed in earlier
                        \* run() calls
    life,               \* per module instance: "none" before its constructor,
                        \* "live", "destroyed" after its destructor
    enabled,            \* RadiosondeDecoderModule::enabled, per instance
    vfo,                \* RadiosondeDecoderModule::vfo, per instance: the
                        \* number of the VFO it points to (0: never assigned)
    chainInput,         \* per instance: the VFO whose output fmDemod reads
    chainRunning,       \* per instance: the DSP blocks have been started
    vfos,               \* sigpath::vfoManager: per instance name, the VFOs
                        \* that exist
    created,            \* history: per instance name, how many VFOs
                        \* createVFO made (they are numbered from 1)
    deleteCalls         \* history: per instance name and VFO, how many
                        \* deleteVFO calls it was handed to

decVars == <<m_calibrated, m_calibDataBitmap, m_calibData, m_sondeData, delivered>>
runVars == <<numFrames, i, outCount, frame, bytesLeft, offset, visited,
             handlerCalls, lastEmitted, retval>>
ctlVars == <<running, tempStopped, readerStop, ctl>>
crcVars == <<crcIn, crcOut>>
dscVars == <<dscIn, dscOut>>
rsVars == <<rsFrame, rsBlock, block, valid, chunk_len, rsBefore, rsRets>>
ptuVars == <<ptuIn, ptuOut>>
strVars == <<count, streamPos, framesDone>>
modVars == <<life, enabled, vfo, chainInput, chainRunning, vfos, created, deleteCalls>>
fnVars == <<crcVars, dscVars, rsVars, ptuVars, strVars, modVars>>
vars == <<decVars, runVars, ctlVars, worker, fnVars>>

\* RS41Decoder::init(): the table is the default table, the bitmap has one bit
\* per fragment, the flag is false.  init() does not touch m_sondeData, so its
\* calibrated field holds whatever the object's memory held.
DecoderInit ==
    /\ m_calibrated = FALSE
    /\ m_calibData = DefaultCalibData
    /\ m_calibDataBitmap = MaskLastByte(MemsetBitmap)
    /\ m_sondeData \in {[SondeDataInit EXCEPT !["calibrated"] = c] : c \in BOOLEAN}
    /\ delivered = {}
    /\ running = FALSE
    /\ tempStopped = FALSE
    /\ readerStop = FALSE
    /\ worker = "stopped"
    /\ ctl = "idle"
    /\ numFrames = 0
    /\ i = 0
    /\ outCount = 0
    /\ frame = NoFrame
    /\ bytesLeft = 0
    /\ offset = 0
    /\ visited = 0
    /\ handlerCalls = 0
    /\ lastEmitted = <<>>
    /\ retval = 0

\* The variables of a function exercised alone, while it is not exercised.
CrcIdle == crcIn = <<>> /\ crcOut = <<>>
DscIdle == dscIn = <<>> /\ dscOut = <<>>
PtuIdle == ptuIn = <<>> /\ ptuOut = <<>>

\* No byte of the input stream has been read.
StrIdle == count = 0 /\ streamPos = 0 /\ framesDone = 0

\* Largest number of module instances the host has created.
MaxInstances == 2

\* Largest number of VFOs made under one instance name.
MaxVfos == 3

\* The module instances, by the name the host gives them.
Instances == 1..MaxInstances

\* No module instance has been created.
ModIdle ==
    /\ life = [m \in Instances |-> "none"]
    /\ enabled = [m \in Instances |-> FALSE]
    /\ vfo = [m \in Instances |-> 0]
    /\ chainInput = [m \in Instances |-> 0]
    /\ chainRunning = [m \in Instances |-> FALSE]
    /\ vfos = [m \in Instances |-> {}]
    /\ created = [m \in Instances |-> 0]
    /\ deleteCalls = [m \in Instances |-> [v \in 1..MaxVfos |-> 0]]

\* The variables of rsCorrect() while no call of it has been made.
NoRsFrame == [extended_flag |-> 0, data |-> <<>>, rs_checksum |-> <<>>]
RsIdle ==
    /\ rsFrame = NoRsFrame
    /\ rsBlock = <<>>
    /\ block = 0
    /\ valid = TRUE
    /\ chunk_len = 0
    /\ rsBefore = NoRsFrame
    /\ rsRets = <<>>

Init ==
    /\ DecoderInit
    /\ CrcIdle
    /\ DscIdle
    /\ RsIdle
    /\ PtuIdle
    /\ StrIdle
    /\ ModIdle

(* ------------------------------------------------------------------ *)
(* Control thread: generic_block::start and RS41Decoder::setInput.     *)
(* ------------------------------------------------------------------ *)

\* rs41Decoder.start(): spawns the worker thread, which loops on run().
Start ==
    /\ ctl = "idle"
    /\ ~running
    /\ running' = TRUE
    /\ worker' = "read"
    /\ UNCHANGED <<decVars, runVars, tempStopped, readerStop, ctl, fnVars>>

\* Faulty variant of SetInputTempStop: setInput does not pause the worker.
SetInputTempStop_Missing ==
    /\ ctl = "idle"
    /\ ctl' = "sonde"
    /\ UNCHANGED <<decVars, runVars, running, tempStopped, readerStop, worker,
                   fnVars>>

\* setInput, tempStop(): on a running block, stop the reader of the input
\* stream and wait for the worker; on a block that is not running, nothing.
SetInputTempStop ==
    /\ ctl = "idle"
    /\ IF running /\ ~tempStopped
       THEN /\ readerStop' = TRUE
            /\ ctl' = "join"
       ELSE /\ readerStop' = readerStop
            /\ ctl' = "sonde"
    /\ UNCHANGED <<decVars, runVars, running, tempStopped, worker, fnVars>>

\* tempStop() returns once the worker thread has been joined.
SetInputJoin ==
    /\ ctl = "join"
    /\ worker = "stopped"
    /\ readerStop' = FALSE
    /\ tempStopped' = TRUE
    /\ ctl' = "sonde"
    /\ UNCHANGED <<decVars, runVars, running, worker, fnVars>>

\* m_sondeData.init()
SetInputSondeInit ==
    /\ ctl = "sonde"
    /\ m_sondeData' = SondeDataInit
    /\ ctl' = "memset"
    /\ UNCHANGED <<m_calibrated, m_calibDataBitmap, m_calibData, delivered,
                   runVars, running, tempStopped, readerStop, worker, fnVars>>

\* memset(m_calibDataBitmap, 0xFF, sizeof(m_calibDataBitmap))
SetInputMemset ==
    /\ ctl = "memset"
    /\ m_calibDataBitmap' = MemsetBitmap
    /\ delivered' = {}
    /\ ctl' = "mask"
    /\ UNCHANGED <<m_calibrated, m_calibData, m_sondeData,
                   runVars, running, tempStopped, readerStop, worker, fnVars>>

\* m_calibDataBitmap[sizeof-1] &= ~(...)
SetInputMask ==
    /\ ctl = "mask"
    /\ m_calibDataBitmap' = MaskLastByte(m_calibDataBitmap)
    /\ ctl' = "flag"
    /\ UNCHANGED <<m_calibrated, m_calibData, m_sondeData, delivered,
                   runVars, running, tempStopped, readerStop, worker, fnVars>>

\* Faulty variant of SetInputFlag: setInput leaves the flag as it is.
SetInputFlag_Keep ==
    /\ ctl = "flag"
    /\ ctl' = "tstart"
    /\ UNCHANGED <<decVars, runVars, running, tempStopped, readerStop, worker,
                   fnVars>>

\* m_calibrated = false
SetInputFlag ==
    /\ ctl = "flag"
    /\ m_calibrated' = FALSE
    /\ ctl' = "tstart"
    /\ UNCHANGED <<m_calibDataBitmap, m_calibData, m_sondeData, delivered,
                   runVars, running, tempStopped, readerStop, worker, fnVars>>

\* tempStart(): restarts the worker if tempStop() had stopped it.
SetInputTempStart ==
    /\ ctl = "tstart"
    /\ IF tempStopped
       THEN /\ worker' = "read"
            /\ tempStopped' = FALSE
       ELSE /\ worker' = worker
            /\ tempStopped' = tempStopped
    /\ ctl' = "idle"
    /\ UNCHANGED <<decVars, runVars, running, readerStop, fnVars>>

(* ------------------------------------------------------------------ *)
(* Worker thread: RS41Decoder::run, one step per loop iteration.       *)
(* ------------------------------------------------------------------ *)

\* Faulty variant of BytesLeft: the extension region always counts.
BytesLeft_Always(f) == DataLen + XdataLen

\* bytesLeft = RS41_DATA_LEN + (extended_flag == RS41_FLAG_EXTENDED ? RS41_XDATA_LEN : 0)
BytesLeft(f) ==
    DataLen + (IF f.extended_flag = RS41_FLAG_EXTENDED THEN XdataLen ELSE 0)

\* if (offset > bytesLeft) break;
PastBound(end, bound) == end > bound

\* Faulty variant of SubframeEnd: the header and the CRC trailer are not counted.
SubframeEnd_NoHeader(off, len) == off + len

\* offset += subframe->len + 4;
SubframeEnd(off, len) == off + len + 4

\* m_in->read() on a stopped reader: run() returns -1 and the worker loop ends.
RunReadStopped ==
    /\ worker = "read"
    /\ readerStop
    /\ retval' = -1
    /\ worker' = "stopped"
    /\ UNCHANGED <<decVars, numFrames, i, outCount, frame, bytesLeft, offset, visited,
                   handlerCalls, lastEmitted, ctlVars, fnVars>>

\* m_in->read() returns the bytes of n whole frames; outCount = 0; the for loop
\* starts.
RunRead ==
    /\ worker = "read"
    /\ ~readerStop
    /\ \E n \in 0..MaxFrames :
          /\ numFrames' = n
          /\ worker' = IF 0 < n THEN "frame" ELSE "flush"
    /\ i' = 0
    /\ outCount' = 0
    /\ handlerCalls' = 0
    /\ UNCHANGED <<decVars, frame, bytesLeft, offset, visited, lastEmitted, retval,
                   ctlVars, fnVars>>

\* Faulty variant of FrameStart: SondeData is reset at the top of every frame.
FrameStart_Reset(frames) ==
    /\ worker = "frame"
    /\ \E f \in frames :
          /\ frame' = f
          /\ bytesLeft' = BytesLeft(f)
    /\ offset' = 0
    /\ visited' = 0
    /\ worker' = "subframe"
    /\ m_sondeData' = SondeDataInit
    /\ UNCHANGED <<m_calibrated, m_calibDataBitmap, m_calibData, delivered,
                   numFrames, i, outCount, handlerCalls, lastEmitted,
                   retval, ctlVars, fnVars>>

\* Top of the for body: frame i of the read buffer, descrambled and error
\* corrected; bytesLeft and offset are set.  The buffer's content is the
\* input: it is drawn from frames when the loop reaches it.
FrameStart(frames) ==
    /\ worker = "frame"
    /\ \E f \in frames :
          /\ frame' = f
          /\ bytesLeft' = BytesLeft(f)
    /\ offset' = 0
    /\ visited' = 0
    /\ worker' = "subframe"
    /\ UNCHANGED <<decVars, numFrames, i, outCount, handlerCalls, lastEmitted,
                   retval, ctlVars, fnVars>>

\* One evaluation of the while condition and, if it holds, one iteration of
\* the while body.
SubframeStep ==
    /\ worker = "subframe"
    /\ \E oob \in OobBytes :
         IF ~(offset < bytesLeft)
         THEN /\ worker' = "emit"
              /\ UNCHANGED <<decVars, offset, visited>>
         ELSE LET sub == SubframeAt(frame, offset, oob)
                  end == SubframeEnd(offset, sub.len)
              IN  /\ offset' = end
                  /\ visited' = visited + 1
                  /\ IF PastBound(end, bytesLeft)
                     THEN /\ worker' = "emit"
                          /\ UNCHANGED decVars
                     ELSE /\ worker' = "subframe"
                          /\ IF ~crcCheck(sub)
                             THEN UNCHANGED decVars
                             ELSE \E clob \in
                                    \* only the status case copies a fragment
                                    (IF sub.type = RS41_SFTYPE_INFO
                                     THEN Clobbers(m_calibDataBitmap, m_calibrated)
                                     ELSE {[bitmap |-> m_calibDataBitmap,
                                            calibrated |-> m_calibrated]}) :
                                  LET upd == updateSondeData(m_sondeData, m_calibData,
                                                m_calibDataBitmap, m_calibrated,
                                                frame, offset, oob, clob)
                                  IN  /\ m_sondeData' = upd.info
                                      /\ m_calibData' = upd.calibData
                                      /\ m_calibDataBitmap' = upd.bitmap
                                      /\ m_calibrated' = upd.calibrated
                                      /\ delivered' =
                                           IF sub.type = RS41_SFTYPE_INFO
                                           THEN delivered \cup
                                                ({StatusAt(frame, offset, oob).frag_seq}
                                                   \cap InRangeFrags)
                                           ELSE delivered
    /\ UNCHANGED <<numFrames, i, outCount, frame, bytesLeft, handlerCalls,
                   lastEmitted, retval, ctlVars, fnVars>>

\* m_handler(&m_sondeData, m_ctx); outCount++; and the for loop's i++ and test.
Emit ==
    /\ worker = "emit"
    /\ lastEmitted' = m_sondeData
    /\ handlerCalls' = handlerCalls + 1
    /\ outCount' = outCount + 1
    /\ i' = i + 1
    /\ worker' = IF i + 1 < numFrames THEN "frame" ELSE "flush"
    /\ UNCHANGED <<decVars, numFrames, frame, bytesLeft, offset, visited, retval,
                   ctlVars, fnVars>>

\* m_in->flush(); return outCount;  the worker loop calls run() again.
Flush ==
    /\ worker = "flush"
    /\ retval' = outCount
    /\ frame' = NoFrame
    /\ bytesLeft' = 0
    /\ offset' = 0
    /\ visited' = 0
    /\ lastEmitted' = <<>>
    /\ worker' = "read"
    /\ UNCHANGED <<decVars, numFrames, i, outCount, handlerCalls,
                   ctlVars, fnVars>>

(* ------------------------------------------------------------------ *)
(* Specifications.                                                     *)
(* ------------------------------------------------------------------ *)

SetInput ==
    \/ SetInputTempStop
    \/ SetInputJoin
    \/ SetInputSondeInit
    \/ SetInputMemset
    \/ SetInputMask
    \/ SetInputFlag
    \/ SetInputTempStart

Run(frames) ==
    \/ RunReadStopped
    \/ RunRead
    \/ FrameStart(frames)
    \/ SubframeStep
    \/ Emit
    \/ Flush

\* The decoder fed with frames of every subframe type.
Next == Start \/ SetInput \/ Run(ParseFrames)
Spec == Init /\ [][Next]_vars

\* The decoder fed with status subframes of any fragment number.
NextStatus == Start \/ SetInput \/ Run(StatusFrames)
SpecStatus == Init /\ [][NextStatus]_vars

\* The decoder fed by a sonde whose status subframes all carry a fragment
\* number inside the table.
NextCalib == Start \/ SetInput \/ Run(CalibFrames)
SpecCalib == Init /\ [][NextCalib]_vars

\* The decoder as RadiosondeDecoderModule uses it: enable() calls setInput()
\* before start(), so SondeData has been initialised when the worker first
\* runs.  The frames are calibration fragments and frames without a status
\* subframe.
ModuleInit ==
    /\ Init
    /\ m_sondeData = SondeDataInit
ModuleFrames == FramesOf({0}, StatusContents(InRangeFrags) \cup {PtuSub})
NextModule == Start \/ SetInput \/ Run(ModuleFrames)
SpecModule == ModuleInit /\ [][NextModule]_vars

\* The worker thread alone, on an input that is never stopped, and a worker
\* thread that keeps running: a step of the while loop or a handler call that
\* can be taken is taken.  LoopFair is weak fairness of SubframeStep written
\* out: SubframeStep is enabled exactly when the worker is in the loop, and it
\* is the only step there that changes the offset or the worker's position.
NextLoop ==
    \/ Start
    \/ RunRead
    \/ FrameStart(ParseFrames)
    \/ SubframeStep
    \/ Emit
    \/ Flush
LoopFair ==
    []<>(worker # "subframe") \/ []<><<worker = "subframe">>_<<offset, worker>>
SpecLoop == Init /\ [][NextLoop]_vars /\ LoopFair /\ WF_vars(Emit)

\* The decoder fed with frames whose subframes are shorter than their struct.
NextShort == Start \/ SetInput \/ Run(ShortFrames)
SpecShort == Init /\ [][NextShort]_vars

(* ------------------------------------------------------------------ *)
(* run() on a byte stream: what read() returns and what flush() takes. *)
(* ------------------------------------------------------------------ *)

\* sizeof(*frame), scaled.
FrameSize == 3

\* Largest byte count one m_in->read() returns: MaxFrames whole frames and
\* all but one byte of a further frame.
MaxRead == MaxFrames * FrameSize + FrameSize - 1

\* Length of the input stream that is followed.
MaxStream == (MaxFrames + 2) * FrameSize

\* Frames in the read buffer: their content has no part in the framing.
StreamFrames == FramesOf({0}, {PtuSub \o GpsInfoSub})

\* Stream position of the first byte of the frame the for body is processing:
\* frame = (RS41Frame*)(m_in->readBuf + i*sizeof(*frame)).
FrameStreamPos == streamPos + i * FrameSize

\* if ((numFrames = m_in->read()) < 0) return -1;  outCount = 0;
\* numFrames /= sizeof(*frame);  and the first test of the for loop.  read()
\* returns the number of bytes the writer put into the buffer.
StreamRead ==
    /\ worker = "read"
    /\ ~readerStop
    /\ \E n \in 0..MaxRead :
          /\ streamPos + n <= MaxStream
          /\ count' = n
          /\ numFrames' = n \div FrameSize
          /\ worker' = IF 0 < n \div FrameSize THEN "frame" ELSE "flush"
    /\ i' = 0
    /\ outCount' = 0
    /\ handlerCalls' = 0
    /\ UNCHANGED <<decVars, frame, bytesLeft, offset, visited, lastEmitted, retval,
                   ctlVars, crcVars, dscVars, rsVars, ptuVars, modVars,
                   streamPos, framesDone>>

\* m_in->flush(); return outCount;  flush() hands the whole read buffer, all
\* count bytes of it, back to the writer; the worker loop calls run() again.
StreamFlush ==
    /\ worker = "flush"
    /\ retval' = outCount
    /\ streamPos' = streamPos + count
    /\ framesDone' = framesDone + outCount
    /\ count' = 0
    /\ frame' = NoFrame
    /\ bytesLeft' = 0
    /\ offset' = 0
    /\ visited' = 0
    /\ lastEmitted' = <<>>
    /\ worker' = "read"
    /\ UNCHANGED <<decVars, numFrames, i, outCount, handlerCalls,
                   ctlVars, crcVars, dscVars, rsVars, ptuVars, modVars>>

NextStream ==
    \/ Start
    \/ StreamRead
    \/ FrameStart(StreamFrames)
    \/ SubframeStep
    \/ Emit
    \/ StreamFlush
SpecStream == Init /\ [][NextStream]_vars

(* ------------------------------------------------------------------ *)
(* RadiosondeDecoderModule: constructor, enable, disable, destructor.  *)
(* ------------------------------------------------------------------ *)

\* The decoder's own variables, which the lifecycle of the module is
\* followed without.
DecoderVars == <<decVars, runVars, ctlVars, worker, crcVars, dscVars, rsVars,
                 ptuVars, strVars>>

\* sigpath::vfoManager.createVFO(name, ...): the number of the VFO it makes.
createVFO(m) == created[m] + 1

\* sigpath::vfoManager.deleteVFO(v) for a VFO made under name m: the call is
\* counted and the VFO, if it still existed, exists no more.  Deleting a VFO
\* a second time is undefined; only the call is recorded.
deleteVFO_calls(calls, m, v) == [calls EXCEPT ![m][v] = @ + 1]
deleteVFO_vfos(set, m, v) == [set EXCEPT ![m] = @ \ {v}]

\* RadiosondeDecoderModule(name): a VFO is created and the DSP blocks are
\* initialised on its output, but not started.  The constructor does not
\* assign enabled; its value comes from the class declaration, which is not
\* part of the sources at hand, so either value is taken.
Construct(m) ==
    /\ life[m] = "none"
    /\ life' = [life EXCEPT ![m] = "live"]
    /\ vfo' = [vfo EXCEPT ![m] = createVFO(m)]
    /\ vfos' = [vfos EXCEPT ![m] = @ \cup {createVFO(m)}]
    /\ created' = [created EXCEPT ![m] = createVFO(m)]
    /\ chainInput' = [chainInput EXCEPT ![m] = createVFO(m)]
    /\ \E e \in BOOLEAN : enabled' = [enabled EXCEPT ![m] = e]
    /\ UNCHANGED <<chainRunning, deleteCalls, DecoderVars>>

\* enable(): a VFO is created, the blocks get their inputs and are started.
\* The host calls it on an instance that reports it is not enabled.
Enable(m) ==
    /\ life[m] = "live"
    /\ ~enabled[m]
    /\ created[m] < MaxVfos
    /\ vfo' = [vfo EXCEPT ![m] = createVFO(m)]
    /\ vfos' = [vfos EXCEPT ![m] = @ \cup {createVFO(m)}]
    /\ created' = [created EXCEPT ![m] = createVFO(m)]
    /\ chainInput' = [chainInput EXCEPT ![m] = createVFO(m)]
    /\ chainRunning' = [chainRunning EXCEPT ![m] = TRUE]
    /\ enabled' = [enabled EXCEPT ![m] = TRUE]
    /\ UNCHANGED <<life, deleteCalls, DecoderVars>>

\* disable(): the blocks are stopped and the VFO is deleted.  The host calls
\* it on an instance that reports it is enabled.
Disable(m) ==
    /\ life[m] = "live"
    /\ enabled[m]
    /\ chainRunning' = [chainRunning EXCEPT ![m] = FALSE]
    /\ deleteCalls' = deleteVFO_calls(deleteCalls, m, vfo[m])
    /\ vfos' = deleteVFO_vfos(vfos, m, vfo[m])
    /\ enabled' = [enabled EXCEPT ![m] = FALSE]
    /\ UNCHANGED <<life, vfo, chainInput, created, DecoderVars>>

\* ~RadiosondeDecoderModule(): if (isEnabled()) disable();  and then
\* deleteVFO(vfo), whether disable() has deleted it or not.
Destroy(m) ==
    /\ life[m] = "live"
    /\ life' = [life EXCEPT ![m] = "destroyed"]
    /\ chainRunning' = [chainRunning EXCEPT ![m] = IF enabled[m] THEN FALSE ELSE @]
    /\ enabled' = [enabled EXCEPT ![m] = FALSE]
    /\ deleteCalls' =
          LET afterDisable == IF enabled[m]
                              THEN deleteVFO_calls(deleteCalls, m, vfo[m])
                              ELSE deleteCalls
          IN  deleteVFO_calls(afterDisable, m, vfo[m])
    /\ vfos' = deleteVFO_vfos(vfos, m, vfo[m])
    /\ UNCHANGED <<vfo, chainInput, created, DecoderVars>>

NextLife ==
    \E m \in Instances :
        \/ Construct(m)
        \/ Enable(m)
        \/ Disable(m)
        \/ Destroy(m)
SpecLife == Init /\ [][NextLife]_vars

(* ------------------------------------------------------------------ *)
(* crcCheck as a pure function: the input is a well-formed subframe,   *)
(* checked as it is and with one payload bit flipped.                  *)
(* ------------------------------------------------------------------ *)

\* Byte values of the payloads.
CrcBytes == {0, 1, 90, 128, 255}

\* Payloads of at most MaxCrcLen bytes.
CrcPayloads == UNION {[1..n -> CrcBytes] : n \in 0..MaxCrcLen}

\* The CRC-16 CCITT-FALSE of a message by its definition: the register starts
\* at 0xFFFF and takes the message bits most significant first; a bit that
\* differs from the register's top bit feeds 0x1021 back.
RefCrcBit(crc, bit) ==
    LET shifted == (crc * 2) % 65536
    IN  IF (crc \div 32768) # bit THEN Xor16(shifted, 4129) ELSE shifted

RefCrcByte(crc, byte) ==
    LET r7 == RefCrcBit(crc, byte \div 128)
        r6 == RefCrcBit(r7, (byte \div 64) % 2)
        r5 == RefCrcBit(r6, (byte \div 32) % 2)
        r4 == RefCrcBit(r5, (byte \div 16) % 2)
        r3 == RefCrcBit(r4, (byte \div 8) % 2)
        r2 == RefCrcBit(r3, (byte \div 4) % 2)
        r1 == RefCrcBit(r2, (byte \div 2) % 2)
    IN  RefCrcBit(r1, byte % 2)

RECURSIVE RefCrc(_, _)
RefCrc(bytes, n) ==
    IF n = 0 THEN 65535 ELSE RefCrcByte(RefCrc(bytes, n - 1), bytes[n])

\* The subframe of a payload with the little-endian reference CRC as trailer.
WellFormed(payload) ==
    LET c == RefCrc(payload, Len(payload))
    IN  [type |-> RS41_SFTYPE_EMPTY,
         len  |-> Len(payload),
         data |-> payload \o <<c % 256, c \div 256>>]

\* sub with bit b of payload byte k flipped, the trailer kept.
FlipBit(sub, k, b) ==
    [sub EXCEPT !.data[k] = Xor8(sub.data[k], Pow2(b))]

NoResult == [kind |-> "none", result |-> FALSE]

CrcInit ==
    /\ DecoderInit
    /\ crcIn \in {WellFormed(p) : p \in CrcPayloads}
    /\ crcOut = NoResult
    /\ DscIdle
    /\ RsIdle
    /\ PtuIdle
    /\ StrIdle
    /\ ModIdle

\* crcCheck on the well-formed subframe.
CrcCheckIntact ==
    /\ crcOut = NoResult
    /\ crcOut' = [kind |-> "intact", result |-> crcCheck(crcIn)]
    /\ UNCHANGED <<decVars, runVars, ctlVars, worker, crcIn, dscVars, rsVars, ptuVars, strVars, modVars>>

\* crcCheck on the subframe after one payload bit has been flipped.
CrcCheckFlipped ==
    /\ crcOut = NoResult
    /\ \E k \in 1..crcIn.len, b \in 0..7 :
          /\ crcIn' = FlipBit(crcIn, k, b)
          /\ crcOut' = [kind |-> "flipped", result |-> crcCheck(crcIn')]
    /\ UNCHANGED <<decVars, runVars, ctlVars, worker, dscVars, rsVars, ptuVars, strVars, modVars>>

CrcNext == CrcCheckIntact \/ CrcCheckFlipped
SpecCrc == CrcInit /\ [][CrcNext]_vars

(* ------------------------------------------------------------------ *)
(* descramble as a pure function of the raw frame bytes.               *)
(* ------------------------------------------------------------------ *)

\* sizeof(*frame) of the frames descramble is exercised on: longer than the
\* period of the sequence, so that the index wraps.
ScrambledLen == 66

\* RS41_PRN_PERIOD and _prn[]
RS41_PRN_PERIOD == 64
prn ==
    << 150, 131,  62,  81, 177,  73,   8, 152,
        50,   5,  89,  14, 249,  68, 198,  38,
        33,  96, 194, 234, 121,  93, 109, 161,
        84, 105,  71,  12, 220, 232,  92, 241,
       247, 118, 130, 127,   7, 153, 162,  44,
       147, 124,  48,  99, 245,  16,  46,  97,
       208, 188, 180, 182,   6, 170, 244,  35,
       120, 110,  59, 174, 191, 123,  76, 193 >>

RECURSIVE ReverseFrom(_, _)
\* The inner loop from j on: tmp |= ((rawFrame[i] >> (7-j)) & 0x1) << j
ReverseFrom(raw, j) ==
    IF j = 8 THEN 0
    ELSE BitAt(raw, 7 - j) * Pow2(j) + ReverseFrom(raw, j + 1)

\* tmp after the inner loop, tabulated once for every byte.
ReverseTable == [raw \in 0..255 |-> ReverseFrom(raw, 0)]

\* Faulty variant of descrambleByte: the sequence is indexed without the
\* all-ones byte being XORed in.
descrambleByte_NoOnes(raw, pos) ==
    Xor8(ReverseTable[raw], prn[(pos % RS41_PRN_PERIOD) + 1])

\* One iteration of the outer loop: the byte written to rawFrame[pos].
descrambleByte(raw, pos) ==
    Xor8(Xor8(255, ReverseTable[raw]), prn[(pos % RS41_PRN_PERIOD) + 1])

\* descramble(frame): every byte of the frame, in place.
descramble(rawFrame) ==
    [k \in 1..Len(rawFrame) |-> descrambleByte(rawFrame[k], k - 1)]

\* Raw frames: zero bytes but for one position, which holds any byte.
RawFrames ==
    {[k \in 1..ScrambledLen |-> IF k = p THEN b ELSE 0] :
        p \in 1..ScrambledLen, b \in Byte}

DscInit ==
    /\ DecoderInit
    /\ CrcIdle
    /\ dscIn \in RawFrames
    /\ dscOut = <<>>
    /\ RsIdle
    /\ PtuIdle
    /\ StrIdle
    /\ ModIdle

\* descramble(frame) on the raw frame.
Descramble ==
    /\ dscOut = <<>>
    /\ dscOut' = descramble(dscIn)
    /\ UNCHANGED <<decVars, runVars, ctlVars, worker, crcVars, dscIn, rsVars, ptuVars, strVars, modVars>>

DscNext == Descramble
SpecDsc == DscInit /\ [][DscNext]_vars

(* ------------------------------------------------------------------ *)
(* RS41Decoder::rsCorrect inside run(): the interleaved Reed-Solomon   *)
(* pass over one frame, one step per phase of the block loop.          *)
(* ------------------------------------------------------------------ *)

\* Interleaving depth, parity symbols per codeword, message length and
\* codeword length.  The message length is half the frame's data bytes plus
\* the byte in front of them, as in the protocol (231 = (263 + 198 + 1) / 2).
RS41_REEDSOLOMON_INTERLEAVING == 2
RS41_REEDSOLOMON_T == 2
RS41_REEDSOLOMON_K == (DataLen + XdataLen + 1) \div RS41_REEDSOLOMON_INTERLEAVING
RS41_REEDSOLOMON_N == RS41_REEDSOLOMON_K + RS41_REEDSOLOMON_T

RsBlocks == 0..(RS41_REEDSOLOMON_INTERLEAVING - 1)

\* chunk_len as the prologue of rsCorrect() sets it.
ChunkLen(f) ==
    IF f.extended_flag # RS41_FLAG_EXTENDED
    THEN (DataLen + 1) \div RS41_REEDSOLOMON_INTERLEAVING
    ELSE RS41_REEDSOLOMON_K

\* The subscript of frame->data in the de-interleave and re-interleave loops.
RsIndex(ii, blk) == RS41_REEDSOLOMON_INTERLEAVING * ii + blk - 1

\* frame->data[idx] for the subscripts the loops produce.  data is preceded in
\* the packed frame by the one-byte extended_flag, so subscript -1 is that
\* byte.
FecCell(f, idx) == IF idx = -1 THEN f.extended_flag ELSE f.data[idx + 1]

\* rsBlock after the two de-interleave loops of one block: the first chunk_len
\* bytes come from the frame, the last RS41_REEDSOLOMON_T from the parity
\* region, the bytes between keep what rsBlock held.
Gather(f, buf, blk, cl) ==
    [k \in 1..RS41_REEDSOLOMON_N |->
        IF k <= cl THEN FecCell(f, RsIndex(k - 1, blk))
        ELSE IF k > RS41_REEDSOLOMON_K
             THEN f.rs_checksum[(k - RS41_REEDSOLOMON_K - 1)
                                + RS41_REEDSOLOMON_T * blk + 1]
             ELSE buf[k]]

\* *frame after the two re-interleave loops of one block.
Scatter(f, buf, blk, cl) ==
    LET Src(idx) == CHOOSE ii \in 0..(cl - 1) : RsIndex(ii, blk) = idx
        Hit(idx) == \E ii \in 0..(cl - 1) : RsIndex(ii, blk) = idx
    IN  [extended_flag |-> IF Hit(-1) THEN buf[Src(-1) + 1] ELSE f.extended_flag,
         data |-> [k \in 1..FrameDataLen |->
                      IF Hit(k - 1) THEN buf[Src(k - 1) + 1] ELSE f.data[k]],
         rs_checksum |-> [k \in 1..Len(f.rs_checksum) |->
                      IF (k - 1) \div RS41_REEDSOLOMON_T = blk
                      THEN buf[RS41_REEDSOLOMON_K + ((k - 1) % RS41_REEDSOLOMON_T) + 1]
                      ELSE f.rs_checksum[k]]]

\* What correct_reed_solomon_decode(m_rs, rsBlock, N, rsBlock) can do to
\* rsBlock.  The decoder is the library's; from the caller's side it either
\* fails, returning -1 with the buffer as it was, or succeeds, returning the
\* message length after writing the message it decided on over bytes 1..K:
\* the received one, or one differing from it in up to T/2 symbols, wherever
\* the decoder located them.  The corrections drawn here are of one symbol,
\* the first or the last of the message.
CorrectedSymbols == {1, RS41_REEDSOLOMON_K}
CorrectedBytes == {77}
DecodeOutcomes(buf) ==
    {[ret |-> -1, msg |-> buf], [ret |-> RS41_REEDSOLOMON_K, msg |-> buf]}
    \cup {[ret |-> RS41_REEDSOLOMON_K, msg |-> [buf EXCEPT ![pos] = v]] :
             pos \in CorrectedSymbols, v \in CorrectedBytes}

\* Faulty variant of ValidAfter: the flag follows the last block only.
ValidAfter_Last(v, ret) == ~(ret < 0)

\* if (correct_reed_solomon_decode(...) < 0) valid = false;
ValidAfter(v, ret) == IF ret < 0 THEN FALSE ELSE v

\* rsBlock in the extended case is not cleared: it holds what the stack held.
RsBlockGarbage ==
    {[k \in 1..RS41_REEDSOLOMON_N |-> g] : g \in {0, 170}}

\* Frames as descramble leaves them, parity region included.
RsChecksum == [k \in 1..(RS41_REEDSOLOMON_T * RS41_REEDSOLOMON_INTERLEAVING) |-> 10 + k]
RsFrames ==
    {[extended_flag |-> 0, data |-> FrameData(PtuSub \o GpsInfoSub),
      rs_checksum |-> RsChecksum],
     [extended_flag |-> RS41_FLAG_EXTENDED,
      data |-> FrameData(PtuSub \o GpsInfoSub \o XdataSub),
      rs_checksum |-> RsChecksum]}

\* Top of the for body and the prologue of rsCorrect(): chunk_len, the memset
\* of the non-extended case, valid = true, block = 0.
FecStart(frames) ==
    /\ worker = "frame"
    /\ \E f \in frames :
          /\ rsFrame' = f
          /\ rsBefore' = f
          /\ chunk_len' = ChunkLen(f)
          /\ rsBlock' \in (IF f.extended_flag # RS41_FLAG_EXTENDED
                           THEN {[k \in 1..RS41_REEDSOLOMON_N |-> 0]}
                           ELSE RsBlockGarbage)
    /\ valid' = TRUE
    /\ block' = 0
    /\ rsRets' = <<>>
    /\ worker' = "rs_gather"
    /\ UNCHANGED <<decVars, runVars, ctlVars, crcVars, dscVars, ptuVars, strVars, modVars>>

\* De-interleave block.
RsGather ==
    /\ worker = "rs_gather"
    /\ rsBlock' = Gather(rsFrame, rsBlock, block, chunk_len)
    /\ worker' = "rs_decode"
    /\ UNCHANGED <<decVars, runVars, ctlVars, crcVars, dscVars, ptuVars, strVars, modVars, rsFrame, block,
                   valid, chunk_len, rsBefore, rsRets>>

\* Error correct block.
RsDecode ==
    /\ worker = "rs_decode"
    /\ \E o \in DecodeOutcomes(rsBlock) :
          /\ rsBlock' = o.msg
          /\ valid' = ValidAfter(valid, o.ret)
          /\ rsRets' = Append(rsRets, o.ret)
    /\ worker' = "rs_scatter"
    /\ UNCHANGED <<decVars, runVars, ctlVars, crcVars, dscVars, ptuVars, strVars, modVars, rsFrame, block,
                   chunk_len, rsBefore>>

\* Re-interleave block; block++ and the for condition.
RsScatter ==
    /\ worker = "rs_scatter"
    /\ rsFrame' = Scatter(rsFrame, rsBlock, block, chunk_len)
    /\ block' = block + 1
    /\ worker' = IF block + 1 < RS41_REEDSOLOMON_INTERLEAVING
                 THEN "rs_gather" ELSE "rs_done"
    /\ UNCHANGED <<decVars, runVars, ctlVars, crcVars, dscVars, ptuVars, strVars, modVars, rsBlock, valid,
                   chunk_len, rsBefore, rsRets>>

\* rsCorrect() returns valid, which run() drops, and its locals are gone;
\* bytesLeft and offset are set from the frame as rsCorrect() left it.
FecDone ==
    /\ worker = "rs_done"
    /\ frame' = [extended_flag |-> rsFrame.extended_flag, data |-> rsFrame.data]
    /\ bytesLeft' = BytesLeft(rsFrame)
    /\ offset' = 0
    /\ visited' = 0
    /\ worker' = "subframe"
    /\ rsFrame' = NoRsFrame
    /\ rsBlock' = <<>>
    /\ block' = 0
    /\ valid' = TRUE
    /\ chunk_len' = 0
    /\ rsBefore' = NoRsFrame
    /\ UNCHANGED <<decVars, numFrames, i, outCount, handlerCalls, lastEmitted,
                   retval, ctlVars, crcVars, dscVars, ptuVars, strVars, modVars, rsRets>>

\* run() with the error correction pass of every frame.
RunFec(frames) ==
    \/ RunRead
    \/ FecStart(frames)
    \/ RsGather
    \/ RsDecode
    \/ RsScatter
    \/ FecDone
    \/ SubframeStep
    \/ Emit
    \/ Flush

NextRs == Start \/ RunFec(RsFrames)
SpecRs == Init /\ [][NextRs]_vars

(* ------------------------------------------------------------------ *)
(* temp, rh_temp, rh and the PTU case of updateSondeData, exercised    *)
(* alone on one subframe and one calibration table.                    *)
(* ------------------------------------------------------------------ *)

\* The channel values and the calibration references drawn.
ChannelValues == {0, 1}
RefValues == {NaN, Num(0), Num(1), Num(2)}

PtuSubframes ==
    [temp_main : ChannelValues, temp_ref1 : ChannelValues,
     temp_ref2 : ChannelValues, humidity_main : ChannelValues,
     humidity_ref1 : ChannelValues, humidity_ref2 : ChannelValues,
     temp_humidity_main : ChannelValues, temp_humidity_ref1 : ChannelValues,
     temp_humidity_ref2 : ChannelValues]

PtuInit ==
    /\ DecoderInit
    /\ CrcIdle
    /\ DscIdle
    /\ RsIdle
    /\ StrIdle
    /\ ModIdle
    /\ ptuIn \in [ptu : PtuSubframes,
                  cal : {CalibFields(a, b) : a \in RefValues, b \in RefValues}]
    /\ ptuOut = <<>>

\* temp, rh_temp and rh on the subframe, and the PTU case of updateSondeData
\* on a SondeData that has just been initialised.
PtuConvert ==
    /\ ptuOut = <<>>
    /\ ptuOut' = [temp    |-> temp(ptuIn.ptu, ptuIn.cal),
                  rh_temp |-> rh_temp(ptuIn.ptu, ptuIn.cal),
                  rh      |-> rh(ptuIn.ptu, ptuIn.cal),
                  info    |-> HandlePTU(SondeDataInit, ptuIn.ptu, ptuIn.cal)]
    /\ UNCHANGED <<decVars, runVars, ctlVars, worker, crcVars, dscVars, rsVars,
                   ptuIn, strVars, modVars>>

PtuNext == PtuConvert
SpecPtu == PtuInit /\ [][PtuNext]_vars

(* ------------------------------------------------------------------ *)
(* Properties of the calibration assembler.                            *)
(* ------------------------------------------------------------------ *)

\* The control thread is not between the steps of setInput that reset the
\* bitmap and the flag.
NotResetting == ctl \notin {"mask", "flag"}

\* Bit q of the completion bitmap (bit 7 of byte 0 is fragment 0).
BitmapBit(bitmap, q) == BitAt(bitmap[q \div 8 + 1], 7 - (q % 8)) = 1

\* The FragSize bytes of fragment slot q of a table.
Slot(calib, q) == [j \in 1..FragSize |-> calib[q * FragSize + j]]

\* C1: fed with CRC-valid status subframes whose fragment numbers lie in
\* 0..FragCount-1, in any order and with repetitions, the flag is false as long
\* as a fragment number has not been delivered since init or setInput, and it
\* turns true in the very step that delivers the last missing one.
C1_CalibratedExactlyWhenComplete ==
    /\ [](NotResetting => (m_calibrated <=> (delivered = InRangeFrags)))
    /\ [][ (~m_calibrated /\ m_calibrated')
             => /\ worker = "subframe"
                /\ delivered # InRangeFrags
                /\ delivered' = InRangeFrags ]_vars

\* C1 witness: the step that delivered the last missing fragment has just set
\* the flag, after some fragment had been delivered out of order.
C1_Witness ==
    /\ worker = "subframe"
    /\ offset > 0
    /\ m_calibrated
    /\ delivered = InRangeFrags
    /\ StatusAt(frame, 0, 0).frag_seq = 0
    /\ m_sondeData["calibrated"]

\* C2: the flag goes from true to false only in setInput's reset, and from
\* false to true only in a subframe step (so at most once between two resets).
C2_FlagMonotonic ==
    [][ (m_calibrated # m_calibrated')
          => \/ (m_calibrated' /\ worker = "subframe")
             \/ (~m_calibrated' /\ ctl = "flag") ]_vars

\* C3: outside setInput's reset the set bits of the bitmap are exactly the
\* fragment numbers 0..FragCount-1 not delivered since init or setInput (so
\* the trailing bits are clear), and the flag is true iff every byte is zero.
C3_BitmapInvariant ==
    NotResetting =>
      /\ \A q \in 0..(8 * BitmapSize - 1) :
            BitmapBit(m_calibDataBitmap, q)
              <=> (q \in InRangeFrags /\ q \notin delivered)
      /\ m_calibrated <=> BitmapAllZero(m_calibDataBitmap)

\* C8: while the flag is false, every fragment slot whose completion bit is
\* set holds the bytes of the default table.
C8_DefaultUntilReceived ==
    (NotResetting /\ ~m_calibrated) =>
      \A q \in InRangeFrags :
         BitmapBit(m_calibDataBitmap, q)
           => Slot(m_calibData, q) = Slot(DefaultCalibData, q)

(* ------------------------------------------------------------------ *)
(* Properties of the subframe loop of run.                             *)
(* ------------------------------------------------------------------ *)

\* What a subframe may modify.
DecState == <<m_sondeData, m_calibData, m_calibDataBitmap, m_calibrated>>

\* A step of the worker inside the while loop.
InSubframeStep == worker = "subframe" /\ ctl' = ctl

\* The payload bound of the claims: the data region, plus the extension
\* region iff the frame's extended flag is set.
PayloadBound(f) ==
    IF f.extended_flag = RS41_FLAG_EXTENDED THEN DataLen + XdataLen ELSE DataLen

\* The subframe at the current offset and its end offset; a byte behind the
\* frame reads as oob.
CurSub(oob) == SubframeAt(frame, offset, oob)
CurEnd(oob) == offset + FrameByte(frame, offset + 1, oob) + 4

\* The trailer of sub is the little-endian reference CRC of its payload.
CrcMatches(sub) ==
    RefCrc(sub.data, sub.len) = sub.data[sub.len + 1] + 256 * sub.data[sub.len + 2]

\* C4: a step of the while loop changes SondeData, the table, the bitmap or
\* the flag only if the subframe at the offset has a matching CRC; a subframe
\* whose CRC does not match changes none of them, and the loop goes on at its
\* offset + len + 4 (stated by contraposition: a step on a subframe inside the
\* bound that changes any of them, or that does not go on at offset + len + 4,
\* is a step on a subframe whose CRC matches).
C4_AppliedOnlyIfCrcValid ==
    [][ InSubframeStep =>
          /\ (DecState' # DecState)
                => (offset < bytesLeft /\ CrcMatches(CurSub(0)))
          /\ \A oob \in OobBytes :
                (/\ offset < bytesLeft
                 /\ CurEnd(oob) <= bytesLeft
                 /\ DecState' # DecState \/ offset' # CurEnd(oob) \/ worker' # "subframe")
                => CrcMatches(CurSub(oob)) ]_vars

\* C4 witness: a PTU subframe with a wrong CRC has been skipped (the
\* temperature is still unset) and the GPS-info subframe behind it, found at
\* offset + len + 4, has been applied.
C4_Witness ==
    /\ worker = "subframe"
    /\ frame.data[1] = RS41_SFTYPE_PTU
    /\ ~CrcMatches(SubframeAt(frame, 0, 0))
    /\ offset = 10
    /\ m_sondeData["temp"] = Unset
    /\ m_sondeData["time"] # Unset

\* C5: no step applies a subframe that ends past the payload bound; the step
\* that meets such a subframe changes nothing and leaves the loop; from there
\* to the handler call nothing changes, and the next step of the worker is the
\* handler call for this frame.
C5_StopAtBound ==
    [][ /\ InSubframeStep =>
            /\ bytesLeft = PayloadBound(frame)
            /\ (DecState' # DecState)
                  => \E oob \in OobBytes : CurEnd(oob) <= PayloadBound(frame)
            /\ \A oob \in OobBytes :
                  (offset < PayloadBound(frame) /\ CurEnd(oob) > PayloadBound(frame))
                  => (worker' = "emit" /\ DecState' = DecState)
        /\ worker = "emit" =>
            /\ DecState' = DecState
            /\ frame' = frame
            /\ worker' \in {"emit", "frame", "flush"}
            /\ worker' # "emit" => (handlerCalls' = handlerCalls + 1
                                    /\ lastEmitted' = m_sondeData) ]_vars

\* C5 witness: in a frame without the extended flag the PTU subframe has
\* been applied, the status subframe that ends in the extension region has
\* stopped the loop, and the frame is about to be emitted.
C5_Witness ==
    /\ worker = "emit"
    /\ frame.extended_flag = 0
    /\ frame.data[6] = RS41_SFTYPE_INFO
    /\ offset > DataLen
    /\ offset <= DataLen + XdataLen
    /\ m_sondeData["temp"] # Unset
    /\ m_sondeData["serial"] = Unset

RECURSIVE Replay(_, _, _)
\* SondeData after the subframes of f from offset off on, started from info,
\* for the subframe types that do not read the calibration state.
Replay(info, f, off) ==
    IF ~(off < PayloadBound(f)) THEN info
    ELSE LET sub == SubframeAt(f, off, 0)
             end == off + sub.len + 4
         IN  IF end > PayloadBound(f) THEN info
             ELSE IF ~CrcMatches(sub) \/ sub.type = RS41_SFTYPE_INFO
                  THEN Replay(info, f, end)
                  ELSE Replay(updateSondeData(info, m_calibData, m_calibDataBitmap,
                                              m_calibrated, f, off, 0,
                                              [bitmap |-> m_calibDataBitmap,
                                               calibrated |-> m_calibrated]).info,
                              f, end)

\* The fields a status subframe writes.
StatusFields == {"calibrated", "serial", "burstkill", "seq"}

RECURSIVE HasValidStatus(_, _)
\* f holds a status subframe that run applies.
HasValidStatus(f, off) ==
    IF ~(off < PayloadBound(f)) THEN FALSE
    ELSE LET sub == SubframeAt(f, off, 0)
             end == off + sub.len + 4
         IN  IF end > PayloadBound(f) THEN FALSE
             ELSE (CrcMatches(sub) /\ sub.type = RS41_SFTYPE_INFO)
                  \/ HasValidStatus(f, end)

\* C6: the handler is called once per frame, in order, after the frame's loop
\* has ended; run returns the number of frames of the read; SondeData changes
\* only by an applied subframe or by setInput, and what is emitted for a frame
\* is what was emitted for the frame before it with this frame's valid
\* subframes applied in order on top.
C6_OneEmissionPerFrame ==
    /\ [][ /\ (worker = "emit" /\ worker' # "emit") =>
                /\ handlerCalls = i
                /\ handlerCalls' = handlerCalls + 1
                /\ i' = i + 1
                /\ lastEmitted' = m_sondeData
           /\ (handlerCalls' # handlerCalls) =>
                \/ (worker = "emit" /\ ~(offset < bytesLeft))
                \/ (worker = "emit" /\ offset > bytesLeft)
                \/ (worker = "read" /\ handlerCalls' = 0)
           /\ (worker = "flush" /\ worker' # "flush") =>
                (handlerCalls = numFrames /\ retval' = numFrames)
           /\ (m_sondeData' # m_sondeData) =>
                (InSubframeStep \/ ctl = "sonde") ]_vars
    /\ [](worker = "emit" /\ lastEmitted # <<>> =>
            \A fld \in SondeFields :
               \/ fld \in StatusFields /\ HasValidStatus(frame, 0)
               \/ m_sondeData[fld] = Replay(lastEmitted, frame, 0)[fld])

\* C6 witness: the second frame of a read is about to be emitted; it holds
\* only a GPS-info subframe, and the temperature is the one the first frame's
\* emission carried.
C6_Witness ==
    /\ worker = "emit"
    /\ i = 1
    /\ lastEmitted # <<>>
    /\ frame.data[1] = RS41_SFTYPE_GPSINFO
    /\ m_sondeData["time"] # Unset
    /\ lastEmitted["time"] = Unset
    /\ lastEmitted["temp"] # Unset
    /\ m_sondeData["temp"] = lastEmitted["temp"]

\* The fields each subframe type owns.
Owned(type) ==
    CASE type = RS41_SFTYPE_INFO    -> StatusFields
      [] type = RS41_SFTYPE_PTU     -> {"temp", "rh", "dewpt", "pressure"}
      [] type = RS41_SFTYPE_GPSPOS  -> {"lat", "lon", "alt", "spd", "hdg", "climb",
                                        "pressure"}
      [] type = RS41_SFTYPE_GPSINFO -> {"time"}
      [] type = RS41_SFTYPE_XDATA   -> {"auxData"}
      [] OTHER -> {}

\* C7: a subframe that run applies leaves every SondeData field unchanged
\* that its type does not own: status owns calibrated, serial, burstkill and
\* seq; PTU temp, rh, dewpt and pressure; GPS position lat, lon, alt, spd,
\* hdg, climb and pressure; GPS info time; XDATA auxData; the others nothing.
C7_FieldOwnership ==
    [][ InSubframeStep =>
          \A fld \in SondeFields :
             (m_sondeData'[fld] # m_sondeData[fld])
               => fld \in Owned(FrameByte(frame, offset, 0)) ]_vars

\* C7 witness: subframes of all five types have been applied, the last one a
\* GPS-info subframe that left the fields of the other four as they were.
C7_Witness ==
    /\ worker = "subframe"
    /\ offset = 5
    /\ frame.data[1] = RS41_SFTYPE_GPSINFO
    /\ \A fld \in SondeFields \ {"calibrated"} : m_sondeData[fld] # Unset

(* ------------------------------------------------------------------ *)
(* Properties of setInput and of crcCheck.                             *)
(* ------------------------------------------------------------------ *)

\* C9: from the moment setInput starts to reset SondeData, the bitmap and the
\* flag until it resumes the block, the worker is not inside run.
C9_ResetWhilePaused ==
    ctl \in {"sonde", "memset", "mask", "flag", "tstart"} => worker = "stopped"

\* C9 witness: setInput on a running block that has emitted frames is between
\* the reset of the bitmap and the reset of the flag, and run has returned -1
\* to the worker loop it paused.
C9_Witness ==
    /\ ctl = "flag"
    /\ running
    /\ tempStopped
    /\ worker = "stopped"
    /\ retval = -1
    /\ m_sondeData["temp"] = Unset
    /\ handlerCalls > 0

\* C10: crcCheck accepts every subframe whose trailer is the little-endian
\* CRC-16 CCITT-FALSE of its payload, and rejects it once a single payload
\* bit has been flipped under the same trailer.
C10_CrcCheck ==
    /\ crcOut.kind = "intact" => crcOut.result
    /\ crcOut.kind = "flipped" => ~crcOut.result

\* C10 witness: a two-byte payload has had the top bit of its second byte
\* flipped and crcCheck has rejected it.
C10_Witness ==
    /\ crcOut.kind = "flipped"
    /\ crcIn.len = 2
    /\ crcIn.data[2] = 128
    /\ ~crcOut.result

(* ------------------------------------------------------------------ *)
(* Properties of descramble.                                           *)
(* ------------------------------------------------------------------ *)

\* The byte with the bits of b in reverse order.
Mirror(b) ==
      128 * (b % 2) + 64 * ((b \div 2) % 2) + 32 * ((b \div 4) % 2)
    + 16 * ((b \div 8) % 2) + 8 * ((b \div 16) % 2) + 4 * ((b \div 32) % 2)
    + 2 * ((b \div 64) % 2) + (b \div 128)

\* The sender's scrambling of byte x at position pos, and of a frame.
ScrambleByte(x, pos) ==
    Mirror(Xor8(Xor8(255, x), prn[(pos % RS41_PRN_PERIOD) + 1]))
Scramble(bytes) == [k \in 1..Len(bytes) |-> ScrambleByte(bytes[k], k - 1)]

\* bytes with every byte but the one at position k complemented.
OthersComplemented(bytes, k) ==
    [j \in 1..Len(bytes) |-> IF j = k THEN bytes[j] ELSE 255 - bytes[j]]

\* C11: every byte descramble leaves is 0xFF XOR mirror(raw byte) XOR
\* prn[position mod period]; mirroring twice gives the byte back; the byte left
\* at a position does not change when the other raw bytes do; and descramble
\* and the sender's scrambling undo each other in both orders.
C11_Descramble ==
    dscOut # <<>> =>
      /\ Len(dscOut) = Len(dscIn)
      /\ \A k \in 1..Len(dscIn) :
            /\ dscOut[k] = Xor8(Xor8(255, Mirror(dscIn[k])),
                                prn[((k - 1) % RS41_PRN_PERIOD) + 1])
            /\ Mirror(Mirror(dscIn[k])) = dscIn[k]
            /\ dscIn[k] # 0 =>
                 descramble(OthersComplemented(dscIn, k))[k] = dscOut[k]
      /\ Scramble(dscOut) = dscIn
      /\ descramble(Scramble(dscIn)) = dscIn

\* C11 witness: a frame whose byte behind the first period of the sequence
\* is 0x01 has been descrambled: the byte left there is 0xFF ^ 0x80 ^ prn[1].
C11_Witness ==
    /\ dscOut # <<>>
    /\ dscIn[RS41_PRN_PERIOD + 2] = 1
    /\ dscOut[RS41_PRN_PERIOD + 2] = Xor8(127, prn[2])

(* ------------------------------------------------------------------ *)
(* Properties of the Reed-Solomon pass.                                *)
(* ------------------------------------------------------------------ *)

\* The bytes of the frame that belong to block blk: its data cells and its
\* parity bytes.
BlockBytes(f, blk, cl) ==
    <<[ii \in 0..(cl - 1) |-> FecCell(f, RsIndex(ii, blk))],
      [t \in 1..RS41_REEDSOLOMON_T |-> f.rs_checksum[t + RS41_REEDSOLOMON_T * blk]]>>

\* What holds when rsCorrect() returns.
RsReturn ==
    worker = "rs_done" =>
        /\ Len(rsRets) = RS41_REEDSOLOMON_INTERLEAVING
        /\ valid = (\A b \in RsBlocks : rsRets[b + 1] >= 0)
        /\ \A b \in RsBlocks :
              rsRets[b + 1] < 0 =>
                  BlockBytes(rsFrame, b, chunk_len) = BlockBytes(rsBefore, b, chunk_len)

\* C12: a Reed-Solomon failure is not fatal.  When rsCorrect() returns, every
\* block has been handed to the decoder whatever the earlier blocks returned,
\* the value returned is false exactly when at least one block failed, and the
\* bytes of a failed block are those the frame had before the call; whatever
\* was returned, run() goes on to parse the frame from offset 0, and every
\* frame of a read has been emitted when the output is flushed.
C12_FecFailureNonFatal ==
    [][/\ RsReturn'
       /\ worker = "rs_done" =>
             /\ worker' = "subframe"
             /\ frame'.data = rsFrame.data
             /\ offset' = 0
       /\ (worker = "emit" /\ worker' # "emit") => handlerCalls' = handlerCalls + 1
       /\ worker' = "flush" => handlerCalls' = numFrames']_vars

\* The first block failed, the second one was decoded all the same, and the
\* frame has been parsed and is about to be emitted.
C12_Witness ==
    /\ worker = "emit"
    /\ Len(rsRets) = RS41_REEDSOLOMON_INTERLEAVING
    /\ rsRets[1] < 0
    /\ rsRets[2] >= 0
    /\ handlerCalls = i

\* C13: while rsCorrect() works on a frame, the subscript
\* INTERLEAVING * i + b - 1 lies in [0, usable payload length) for every block
\* b and every i below chunk_len, and distinct pairs (b, i) give distinct
\* subscripts.
C13_IndexInPayload ==
    worker \in {"rs_gather", "rs_decode", "rs_scatter"} =>
        /\ \A b \in RsBlocks, ii \in 0..(chunk_len - 1) :
              /\ 0 <= RsIndex(ii, b)
              /\ RsIndex(ii, b) < BytesLeft(rsBefore)
        /\ \A b1, b2 \in RsBlocks, i1, i2 \in 0..(chunk_len - 1) :
              RsIndex(i1, b1) = RsIndex(i2, b2) => (b1 = b2 /\ i1 = i2)

\* C14: for a non-extended frame, the bytes chunk_len .. K-1 of rsBlock are
\* zero whenever a block is handed to the decoder.
C14_ZeroPadding ==
    (worker = "rs_decode" /\ rsBefore.extended_flag # RS41_FLAG_EXTENDED) =>
        \A k \in (chunk_len + 1)..RS41_REEDSOLOMON_K : rsBlock[k] = 0

(* ------------------------------------------------------------------ *)
(* Properties of the PTU conversions.                                  *)
(* ------------------------------------------------------------------ *)

\* The three guards as the conversions were called with them.
TempRefsEqual == ptuIn.ptu.temp_ref1 = ptuIn.ptu.temp_ref2
HumidityRefsEqual == ptuIn.ptu.humidity_ref1 = ptuIn.ptu.humidity_ref2
TempHumidityRefsEqual == ptuIn.ptu.temp_humidity_ref1 = ptuIn.ptu.temp_humidity_ref2
CalibRefZero == ptuIn.cal.t_ref[1] = Num(0) \/ ptuIn.cal.t_ref[2] = Num(0)
CalibRefsNumbers == ~IsNaN(ptuIn.cal.t_ref[1]) /\ ~IsNaN(ptuIn.cal.t_ref[2])

\* What C15 says of the degenerate cases.
DegenerateGiveNaN ==
    /\ TempRefsEqual => IsNaN(ptuOut.temp)
    /\ HumidityRefsEqual => IsNaN(ptuOut.rh)
    /\ (TempHumidityRefsEqual \/ CalibRefZero) => IsNaN(ptuOut.rh_temp)

C16_NaNPropagates ==
    (ptuOut # <<>> /\ (IsNaN(ptuOut.rh_temp) \/ IsNaN(ptuOut.temp))) =>
        ptuOut.info["rh"] = NaN

(* ------------------------------------------------------------------ *)
(* Memory safety of the handlers.                                      *)
(* ------------------------------------------------------------------ *)

\* The step applies the subframe at the offset: it lies inside the bound and
\* its CRC is valid.
AppliesSubframe ==
    /\ InSubframeStep
    /\ offset < bytesLeft
    /\ worker' = "subframe"
    /\ crcCheck(CurSub(0))

\* C17: when run applies a status subframe, the fragment copy stays inside the
\* calibration table (frag_seq * FRAGSIZE + FRAGSIZE <= table size) and the bit
\* cleared lies inside the completion bitmap.
C17_CalibWritesInBounds ==
    [][ (AppliesSubframe /\ CurSub(0).type = RS41_SFTYPE_INFO) =>
          LET frag_seq == StatusAt(frame, offset, 0).frag_seq
          IN  /\ frag_seq * FragSize + FragSize <= CalibSize
              /\ frag_seq \div 8 < BitmapSize ]_vars

\* C18: when run applies a subframe, every payload byte its handler reads lies
\* within the subframe's own len payload bytes, which the validated CRC covers,
\* and below the payload bound of the frame.
C18_HandlersReadWithinLen ==
    [][ AppliesSubframe =>
          \A k \in HandlerReads(CurSub(0).type, CurSub(0).len) :
              /\ k < CurSub(0).len
              /\ offset + 2 + k < bytesLeft ]_vars

(* ------------------------------------------------------------------ *)
(* Termination of the subframe loop.                                   *)
(* ------------------------------------------------------------------ *)

\* C19: every iteration of the while body moves the offset forward by at
\* least 4, whatever the subframe's len and CRC; no frame has more than
\* ceil(bound / 4) iterations; and a frame whose subframes are being parsed
\* gets its handler call.
C19_LoopTerminates ==
    /\ [][ (InSubframeStep /\ offset < bytesLeft) =>
              /\ offset' >= offset + 4
              /\ visited' = visited + 1 ]_vars
    /\ [](worker \in {"subframe", "emit"} => visited <= (bytesLeft + 3) \div 4)
    /\ \A n \in 0..(MaxFrames - 1) :
          (worker = "subframe" /\ handlerCalls = n) ~> (handlerCalls = n + 1)

\* A frame whose first subframe has a wrong CRC: both subframes were visited
\* and the frame is about to be emitted.
C19_Witness ==
    /\ worker = "emit"
    /\ visited = 2
    /\ frame.data[1] = RS41_SFTYPE_PTU
    /\ ~CrcMatches(SubframeAt(frame, 0, 0))

(* ------------------------------------------------------------------ *)
(* The emitted calibrated flag.                                        *)
(* ------------------------------------------------------------------ *)

C21_FramingKept ==
    /\ worker \in {"subframe", "emit"} =>
          FrameStreamPos = (framesDone + i) * FrameSize
    /\ worker = "read" => streamPos = framesDone * FrameSize

(* ------------------------------------------------------------------ *)
(* The VFOs of a module instance.                                      *)
(* ------------------------------------------------------------------ *)

\* C22: no VFO is handed to deleteVFO twice, at most one VFO of an instance
\* exists at any time, and once the instance is destroyed every VFO that was
\* created for it has been deleted exactly once.
C22_VfoBalanced ==
    \A m \in Instances :
        /\ \A v \in 1..MaxVfos : deleteCalls[m][v] <= 1
        /\ Cardinality(vfos[m]) <= 1
        /\ life[m] = "destroyed" =>
              \A v \in 1..created[m] : deleteCalls[m][v] = 1

====
